---- MODULE Spec2Model ----
(***************************************************************************)
(* Model of the two provider dispatchers of tganalys:                      *)
(*   - transcription_client.py : TranscriptionClient (whisper_local,       *)
(*     openai, assemblyai with its upload -> submit -> poll workflow)      *)
(*   - ai_client.py : AIClient.chat_completion and the module functions    *)
(*     analyze_messages / custom_analysis built on it.                     *)
(* One call is awaited at a time; the variables of a call describe the     *)
(* call in flight or, once it returned, the most recent call.              *)
(* Python strings are sequences of text pieces; the empty string is << >>. *)
(* Cyrillic literals of the source are written transliterated.             *)
(***************************************************************************)
EXTENDS Integers, Sequences, FiniteSets, TLC

\* ------------------------------------------------------------- bounds
MaxLen == 3      \* longest transcript body a backend delivers (characters)
MaxMsgs == 2     \* longest list of message records handed to an analysis

\* ------------------------------------------------------ python values
Absent == [tag |-> "absent", val |-> << >>]   \* key missing / env var unset
PyNone == [tag |-> "None", val |-> << >>]
PyStr(s) == [tag |-> "str", val |-> s]

\* bool(v) of an optional string: None and "" are falsy
Truthy(v) == v.tag = "str" /\ v.val # << >>

\* d.get(key, default) where v is the stored value or Absent
DictGet(v, default) == IF v.tag = "absent" THEN default ELSE v

IsSpace(c) == c = " "

RECURSIVE LStrip(_)
LStrip(s) == IF s # << >> /\ IsSpace(Head(s)) THEN LStrip(Tail(s)) ELSE s

RECURSIVE RStrip(_)
RStrip(s) ==
  IF s # << >> /\ IsSpace(s[Len(s)]) THEN RStrip(SubSeq(s, 1, Len(s) - 1)) ELSE s

\* str.strip()
Strip(s) == RStrip(LStrip(s))

\* str.lower() on the provider names an environment can hold
Lower(s) ==
  CASE s = "OpenAI" -> "openai"
    [] s = "OpenRouter" -> "openrouter"
    [] s = "AssemblyAI" -> "assemblyai"
    [] s = "Whisper_Local" -> "whisper_local"
    [] OTHER -> s

Chars == {" ", "a"}

RECURSIVE StrUpTo(_)
StrUpTo(n) ==
  IF n = 0 THEN {<< >>}
  ELSE LET S == StrUpTo(n - 1) IN S \cup {Append(s, c) : s \in S, c \in Chars}

Texts == StrUpTo(MaxLen)

\* ------------------------------------------------------------- state
VARIABLES
  tState,          \* "none" | "ready" : TranscriptionClient instance
  t_provider,      \* TranscriptionClient.provider
  openai_client,   \* TranscriptionClient.openai_client is not None
  assemblyai_key,  \* TranscriptionClient.assemblyai_key
  tPc,             \* position of the transcribe call
  attempt,         \* poll loop iterations started
  audio_url,
  transcript_id,
  tResult,         \* value transcribe returned
  tRaised,         \* an exception left transcribe
  req,             \* requests and sleeps issued by the call
  obs,             \* what the backend answered during the call
  aiState,         \* "unloaded" | "ready" | "failed" : module ai_client
  ai_provider,     \* AIClient.provider
  ai_model,        \* AIClient.model
  chatPc,          \* position of the chat_completion call
  chatArgs,        \* its arguments and the headers it sends
  chatResult,
  chatRaised,      \* an exception left chat_completion
  chatFailure,     \* str(e) of the exception the backend request raised
  anPc,            \* position of analyze_messages / custom_analysis
  anCall,          \* its name and arguments
  anResult,
  nChat            \* chat_completion calls made by the analysis

tConfig == <<tState, t_provider, openai_client, assemblyai_key>>
tFrame == <<tPc, attempt, audio_url, transcript_id, tResult, tRaised, req, obs>>
aiConfig == <<aiState, ai_provider, ai_model>>
chatFrame == <<chatPc, chatArgs, chatResult, chatRaised, chatFailure>>
anFrame == <<anPc, anCall, anResult, nChat>>
vars == <<tConfig, tFrame, aiConfig, chatFrame, anFrame>>

\* ----------------------------------------------- transcription client
max_attempts == 60

NoReq == [upload |-> 0, submit |-> 0, sleep |-> 0, status |-> 0]

NoObs ==
  [uploadOk |-> FALSE,     \* upload answered 200 with a non-empty upload_url
   submitOk |-> FALSE,     \* submit answered 200 with a non-empty id
   pollAnswer |-> "none",  \* kind of the latest answer to a status request
   sawNon200 |-> FALSE,    \* some status request was answered non-200
   sawOther |-> FALSE,     \* some 200 answer carried an unknown/missing status
   kCompleted |-> 0,       \* number of the status request first answered completed
   delivered |-> Absent]   \* transcript text the backend delivered

TIdle ==
  /\ tPc = "idle" /\ attempt = 0 /\ audio_url = Absent /\ transcript_id = Absent
  /\ tResult = PyNone /\ tRaised = FALSE /\ req = NoReq /\ obs = NoObs

TReset ==
  /\ tPc' = "idle" /\ attempt' = 0 /\ audio_url' = Absent /\ transcript_id' = Absent
  /\ tResult' = PyNone /\ tRaised' = FALSE /\ req' = NoReq /\ obs' = NoObs

ChatReset ==
  /\ chatPc' = "idle" /\ chatArgs' = Absent /\ chatResult' = PyNone
  /\ chatRaised' = FALSE /\ chatFailure' = Absent

AnReset == anPc' = "idle" /\ anCall' = Absent /\ anResult' = PyNone /\ nChat' = 0

EnvTranscriptionProviders ==
  {Absent, PyStr("whisper_local"), PyStr("openai"), PyStr("assemblyai"),
   PyStr("AssemblyAI"), PyStr("vosk")}

EnvKeys == {Absent, PyStr(<< >>), PyStr(<<"key">>)}

\* TranscriptionClient.__init__
TranscriptionClient_init(env_provider, env_openai_key, env_assemblyai_key) ==
  /\ tState = "none"
  /\ tState' = "ready"
  /\ t_provider' = Lower(DictGet(env_provider, PyStr("whisper_local")).val)
  /\ openai_client' = Truthy(env_openai_key)
  /\ assemblyai_key' = DictGet(env_assemblyai_key, PyNone)
  /\ UNCHANGED <<tFrame, aiConfig, chatFrame, anFrame>>


\* No call is in flight: the caller awaits each call before the next.
NoCallInFlight == tPc = "idle" /\ chatPc = "idle" /\ anPc = "idle"

Returned(v) == [result |-> v, raised |-> FALSE]

\* except Exception in _transcribe_whisper_local
whisper_local_except == Returned(PyNone)

\* except Exception in _transcribe_openai
openai_except == Returned(PyNone)

\* except Exception in _transcribe_assemblyai
assemblyai_except == Returned(PyNone)

\* try/except of transcribe around the backend call
transcribe_result(o) == IF o.raised THEN Returned(PyNone) ELSE o

\* the if/elif/else chain of transcribe
Backend(provider) ==
  IF provider = "openai" THEN "openai"
  ELSE IF provider = "assemblyai" THEN "assemblyai"
  ELSE "whisper_local"

TFinish(o) ==
  LET r == transcribe_result(o) IN
    /\ tPc' = "done"
    /\ tResult' = r.result
    /\ tRaised' = r.raised

\* answers of the HTTP backends
FailureKinds == {"transport_error", "timeout"}

Failure(k) == [kind |-> k, status |-> 0, json |-> Absent, text |-> Absent]
Http(st, js) == [kind |-> "http", status |-> st, json |-> js, text |-> Absent]
HttpText(st, tx) == [kind |-> "http", status |-> st, json |-> Absent, text |-> tx]

Failures == {Failure(k) : k \in FailureKinds}

\* a JSON field that should hold a string: missing, null, "" or a value
FieldValues(v) == {Absent, PyNone, PyStr(<< >>), PyStr(v)}

UploadResponses ==
  Failures \cup {Http(500, Absent)}
    \cup {Http(200, [upload_url |-> u]) : u \in FieldValues(<<"u">>)}

SubmitResponses ==
  Failures \cup {Http(500, Absent)}
    \cup {Http(200, [id |-> i]) : i \in FieldValues(<<"t">>)}

PendingStatuses == {"queued", "processing"}

StatusResponses ==
  Failures \cup {Http(500, Absent)}
    \cup {Http(200, [status |-> s, text |-> Absent, error |-> Absent]) :
            s \in PendingStatuses \cup {"<None>", "throttled"}}
    \cup {Http(200, [status |-> "error", text |-> Absent, error |-> PyStr(<<"bad audio">>)])}
    \cup {Http(200, [status |-> "completed", text |-> t, error |-> Absent]) :
            t \in {Absent, PyNone} \cup {PyStr(x) : x \in Texts}}

WhisperResponses ==
  Failures \cup {HttpText(500, PyStr(<<"a">>))}
    \cup {HttpText(200, PyStr(x)) : x \in Texts}

\* what audio.transcriptions.create(response_format="text") gives back
OpenaiResponses == Failures \cup {HttpText(200, PyStr(x)) : x \in Texts}

\* transcribe: entry and dispatch on the provider
Transcribe ==
  /\ tState = "ready"
  /\ NoCallInFlight
  /\ attempt' = 0
  /\ audio_url' = Absent
  /\ transcript_id' = Absent
  /\ req' = NoReq
  /\ obs' = NoObs
  /\ LET b == Backend(t_provider) IN
       IF b = "openai" /\ ~openai_client THEN TFinish(Returned(PyNone))
       ELSE IF b = "assemblyai" /\ ~Truthy(assemblyai_key) THEN TFinish(Returned(PyNone))
       ELSE /\ tPc' = (IF b = "openai" THEN "openai_create"
                       ELSE IF b = "assemblyai" THEN "upload" ELSE "whisper_post")
            /\ tResult' = PyNone
            /\ tRaised' = FALSE
  /\ UNCHANGED <<tConfig, aiConfig, chatFrame, anFrame>>

\* _transcribe_whisper_local, from the answer to its POST
whisper_local_step(resp) ==
  IF resp.kind # "http" THEN whisper_local_except
  ELSE IF resp.status = 200 THEN Returned(PyStr(Strip(resp.text.val)))
  ELSE Returned(PyNone)

WhisperLocalPost(resp) ==
  /\ tPc = "whisper_post"
  /\ TFinish(whisper_local_step(resp))
  /\ obs' = [obs EXCEPT !.delivered =
               IF resp.kind = "http" /\ resp.status = 200 THEN resp.text ELSE Absent]
  /\ UNCHANGED <<attempt, audio_url, transcript_id, req>>
  /\ UNCHANGED <<tConfig, aiConfig, chatFrame, anFrame>>

\* _transcribe_openai, from the answer of the SDK call
openai_step(resp) ==
  IF resp.kind # "http" THEN openai_except
  ELSE IF resp.text.val # << >> THEN Returned(PyStr(Strip(resp.text.val)))
  ELSE Returned(PyNone)

OpenaiCreate(resp) ==
  /\ tPc = "openai_create"
  /\ TFinish(openai_step(resp))
  /\ obs' = [obs EXCEPT !.delivered =
               IF resp.kind = "http" /\ resp.text.val # << >> THEN resp.text ELSE Absent]
  /\ UNCHANGED <<attempt, audio_url, transcript_id, req>>
  /\ UNCHANGED <<tConfig, aiConfig, chatFrame, anFrame>>

\* upload_step without the "No upload URL received" check
upload_step_unchecked(resp) ==
  IF resp.kind # "http" THEN [act |-> "return", out |-> assemblyai_except, val |-> Absent]
  ELSE IF resp.status # 200 THEN [act |-> "return", out |-> Returned(PyNone), val |-> Absent]
  ELSE [act |-> "next", out |-> Returned(PyNone),
        val |-> DictGet(resp.json.upload_url, PyNone)]

\* _transcribe_assemblyai step 1: what the answer to the upload POST leads to
upload_step(resp) ==
  IF resp.kind # "http" THEN [act |-> "return", out |-> assemblyai_except, val |-> Absent]
  ELSE IF resp.status # 200 THEN [act |-> "return", out |-> Returned(PyNone), val |-> Absent]
  ELSE LET url == DictGet(resp.json.upload_url, PyNone) IN
         IF ~Truthy(url) THEN [act |-> "return", out |-> Returned(PyNone), val |-> url]
         ELSE [act |-> "next", out |-> Returned(PyNone), val |-> url]

AssemblyaiUpload(resp) ==
  /\ tPc = "upload"
  /\ req' = [req EXCEPT !.upload = @ + 1]
  /\ obs' = [obs EXCEPT !.uploadOk =
               /\ resp.kind = "http" /\ resp.status = 200
               /\ Truthy(resp.json.upload_url)]
  /\ LET s == upload_step(resp) IN
       IF s.act = "return" THEN TFinish(s.out) /\ UNCHANGED audio_url
       ELSE /\ tPc' = "submit"
            /\ audio_url' = s.val
            /\ UNCHANGED <<tResult, tRaised>>
  /\ UNCHANGED <<attempt, transcript_id>>
  /\ UNCHANGED <<tConfig, aiConfig, chatFrame, anFrame>>

\* step 2: what the answer to the transcript POST leads to
submit_step(resp) ==
  IF resp.kind # "http" THEN [act |-> "return", out |-> assemblyai_except, val |-> Absent]
  ELSE IF resp.status # 200 THEN [act |-> "return", out |-> Returned(PyNone), val |-> Absent]
  ELSE LET id == DictGet(resp.json.id, PyNone) IN
         IF ~Truthy(id) THEN [act |-> "return", out |-> Returned(PyNone), val |-> id]
         ELSE [act |-> "next", out |-> Returned(PyNone), val |-> id]

AssemblyaiSubmit(resp) ==
  /\ tPc = "submit"
  /\ req' = [req EXCEPT !.submit = @ + 1]
  /\ obs' = [obs EXCEPT !.submitOk =
               /\ resp.kind = "http" /\ resp.status = 200
               /\ Truthy(resp.json.id)]
  /\ LET s == submit_step(resp) IN
       IF s.act = "return" THEN TFinish(s.out) /\ UNCHANGED transcript_id
       ELSE /\ tPc' = "poll"
            /\ transcript_id' = s.val
            /\ UNCHANGED <<tResult, tRaised>>
  /\ UNCHANGED <<attempt, audio_url>>
  /\ UNCHANGED <<tConfig, aiConfig, chatFrame, anFrame>>

\* LoopContinues off by one: range(max_attempts + 1)
LoopContinues_one_more(n) == n <= max_attempts

\* step 3, loop head: for attempt in range(max_attempts)
LoopContinues(n) == n < max_attempts

\* one more iteration: asyncio.sleep(2), then the status request goes out
PollSleep ==
  /\ tPc = "poll"
  /\ LoopContinues(attempt)
  /\ attempt' = attempt + 1
  /\ req' = [req EXCEPT !.sleep = @ + 1]
  /\ tPc' = "status"
  /\ UNCHANGED <<audio_url, transcript_id, tResult, tRaised, obs>>
  /\ UNCHANGED <<tConfig, aiConfig, chatFrame, anFrame>>

\* the range is exhausted: "Transcription timeout"
PollExhausted ==
  /\ tPc = "poll"
  /\ ~LoopContinues(attempt)
  /\ TFinish(Returned(PyNone))
  /\ UNCHANGED <<attempt, audio_url, transcript_id, req, obs>>
  /\ UNCHANGED <<tConfig, aiConfig, chatFrame, anFrame>>

\* poll_step that keeps waiting after a "completed" answer
poll_step_ignores_completed(resp) ==
  IF resp.kind # "http" THEN [act |-> "return", out |-> assemblyai_except]
  ELSE IF resp.status # 200 THEN [act |-> "continue", out |-> Returned(PyNone)]
  ELSE IF resp.json.status = "error" THEN [act |-> "return", out |-> Returned(PyNone)]
  ELSE [act |-> "continue", out |-> Returned(PyNone)]

\* poll_step that returns None on a non-200 answer instead of continuing
poll_step_aborts_on_non200(resp) ==
  IF resp.kind # "http" THEN [act |-> "return", out |-> assemblyai_except]
  ELSE IF resp.status # 200 THEN [act |-> "return", out |-> Returned(PyNone)]
  ELSE IF resp.json.status = "completed"
         THEN LET t == DictGet(resp.json.text, PyStr(<< >>)) IN
                IF t.tag = "str" THEN [act |-> "return", out |-> Returned(PyStr(Strip(t.val)))]
                ELSE [act |-> "return", out |-> assemblyai_except]
  ELSE IF resp.json.status = "error" THEN [act |-> "return", out |-> Returned(PyNone)]
  ELSE [act |-> "continue", out |-> Returned(PyNone)]

\* loop body after the sleep: what the answer to the status GET leads to
poll_step(resp) ==
  IF resp.kind # "http" THEN [act |-> "return", out |-> assemblyai_except]
  ELSE IF resp.status # 200 THEN [act |-> "continue", out |-> Returned(PyNone)]
  ELSE IF resp.json.status = "completed"
         THEN LET t == DictGet(resp.json.text, PyStr(<< >>)) IN
                IF t.tag = "str" THEN [act |-> "return", out |-> Returned(PyStr(Strip(t.val)))]
                ELSE [act |-> "return", out |-> assemblyai_except]
  ELSE IF resp.json.status = "error" THEN [act |-> "return", out |-> Returned(PyNone)]
  ELSE [act |-> "continue", out |-> Returned(PyNone)]

AnswerKind(resp) ==
  IF resp.kind # "http" THEN "exception"
  ELSE IF resp.status # 200 THEN "non200"
  ELSE IF resp.json.status \in {"completed", "error"} THEN resp.json.status
  ELSE IF resp.json.status \in PendingStatuses THEN "pending"
  ELSE "other"

PollStatus(resp) ==
  /\ tPc = "status"
  /\ req' = [req EXCEPT !.status = @ + 1]
  /\ obs' = [obs EXCEPT
               !.pollAnswer = AnswerKind(resp),
               !.sawNon200 = @ \/ AnswerKind(resp) = "non200",
               !.sawOther = @ \/ AnswerKind(resp) = "other",
               !.kCompleted = IF @ = 0 /\ AnswerKind(resp) = "completed"
                              THEN req.status + 1 ELSE @,
               !.delivered = IF AnswerKind(resp) = "completed" /\ resp.json.text.tag = "str"
                             THEN resp.json.text ELSE @]
  /\ LET s == poll_step(resp) IN
       IF s.act = "return" THEN TFinish(s.out)
       ELSE tPc' = "poll" /\ UNCHANGED <<tResult, tRaised>>
  /\ UNCHANGED <<attempt, audio_url, transcript_id>>
  /\ UNCHANGED <<tConfig, aiConfig, chatFrame, anFrame>>


\* the caller of transcribe resumes with the value returned
TranscribeResume ==
  /\ tPc = "done"
  /\ TReset
  /\ UNCHANGED <<tConfig, aiConfig, chatFrame, anFrame>>

\* ------------------------------------------------------------ AI client
AIProviders == {"openai", "openrouter", "agentrouter"}

\* config.AI_PROVIDER as the environment can set it (unset: "openai")
EnvAIProviders ==
  {Absent, PyStr("openai"), PyStr("OpenAI"), PyStr("openrouter"),
   PyStr("agentrouter"), PyStr("gigachat")}

\* config.OPENROUTER_MODEL as the environment can set it
EnvOpenrouterModels == {Absent, PyStr("meta-llama/llama-3-70b")}

\* AIClient_resolve whose else branch falls back to OpenAI instead of raising
AIClient_resolve_default(provider, OPENROUTER_MODEL) ==
  IF provider = "openrouter" THEN [ok |-> TRUE, model |-> OPENROUTER_MODEL]
  ELSE IF provider = "agentrouter" THEN [ok |-> TRUE, model |-> "auto"]
  ELSE [ok |-> TRUE, model |-> "gpt-4o-mini"]

\* the if/elif/else chain of AIClient.__init__: the model, or ValueError
AIClient_resolve(provider, OPENROUTER_MODEL) ==
  IF provider = "openai" THEN [ok |-> TRUE, model |-> "gpt-4o-mini"]
  ELSE IF provider = "openrouter" THEN [ok |-> TRUE, model |-> OPENROUTER_MODEL]
  ELSE IF provider = "agentrouter" THEN [ok |-> TRUE, model |-> "auto"]
  ELSE [ok |-> FALSE, model |-> "none"]

\* ai_client = AIClient() at import of the module
AIClient_init(env_provider, env_model) ==
  /\ aiState = "unloaded"
  /\ LET AI_PROVIDER == DictGet(env_provider, PyStr("openai")).val
         OPENROUTER_MODEL == DictGet(env_model, PyStr("anthropic/claude-3.5-sonnet")).val
         r == AIClient_resolve(Lower(AI_PROVIDER), OPENROUTER_MODEL)
     IN  /\ aiState' = (IF r.ok THEN "ready" ELSE "failed")
         /\ ai_provider' = (IF r.ok THEN Lower(AI_PROVIDER) ELSE "none")
         /\ ai_model' = r.model
  /\ UNCHANGED <<tConfig, tFrame, chatFrame, anFrame>>

\* what the awaited chat.completions.create and the read of
\* response.choices[0].message.content can produce
ChatOutcomes ==
  {[kind |-> "content", content |-> PyStr(<<"reply">>), msg |-> << >>],
   [kind |-> "content", content |-> PyNone, msg |-> << >>],
   [kind |-> "api_error", content |-> PyNone, msg |-> <<"Connection error.">>],
   [kind |-> "api_error", content |-> PyNone, msg |-> <<"Error code: 401">>],
   [kind |-> "bad_response", content |-> PyNone, msg |-> <<"list index out of range">>]}

\* chat_completion_except that leaves the provider out of the message
chat_completion_except_bare(provider, msg) ==
  Returned(PyStr(<<"Oshibka analiza: ">> \o msg))

\* except Exception in chat_completion: the string it returns
chat_completion_except(provider, msg) ==
  Returned(PyStr(<<"Oshibka analiza (", provider, "): ">> \o msg))

\* chat_completion, from the outcome of the backend request
chat_completion_step(provider, o) ==
  IF o.kind = "content" THEN Returned(o.content)
  ELSE chat_completion_except(provider, o.msg)

\* extra_headers of chat_completion
extra_headers(provider) ==
  IF provider = "openrouter" THEN <<"HTTP-Referer", "X-Title">> ELSE << >>

ChatArgs(system_prompt, user_message) ==
  [system |-> system_prompt, user |-> user_message,
   model |-> ai_model, headers |-> extra_headers(ai_provider)]

\* chat_completion called directly on the client
ChatCompletionCall(system_prompt, user_message) ==
  /\ aiState = "ready"
  /\ NoCallInFlight
  /\ chatPc' = "request"
  /\ chatArgs' = ChatArgs(system_prompt, user_message)
  /\ chatResult' = PyNone
  /\ chatRaised' = FALSE
  /\ chatFailure' = Absent
  /\ UNCHANGED <<tConfig, tFrame, aiConfig, anFrame>>

\* the backend request of chat_completion completes
ChatCompletionRequest(o) ==
  /\ chatPc = "request"
  /\ LET r == chat_completion_step(ai_provider, o) IN
       /\ chatResult' = r.result
       /\ chatRaised' = r.raised
  /\ chatFailure' = (IF o.kind = "content" THEN Absent ELSE PyStr(o.msg))
  /\ chatPc' = "done"
  /\ UNCHANGED chatArgs
  /\ UNCHANGED <<tConfig, tFrame, aiConfig, anFrame>>


\* the caller of a direct chat_completion resumes with the value returned
ChatCompletionResume ==
  /\ chatPc = "done"
  /\ anPc = "idle"
  /\ ChatReset
  /\ UNCHANGED <<tConfig, tFrame, aiConfig, anFrame>>

\* -------------------------------------- analyze_messages, custom_analysis
\* message records: each field is a stored value or Absent (no such key)
MessageTexts == {Absent, PyNone, PyStr(<< >>), PyStr(<<"a">>)}
Transcriptions == {Absent, PyNone, PyStr(<<"x">>)}
MessageDates == {Absent, PyStr(<<"d">>)}

Records ==
  [message_text : MessageTexts, transcription : Transcriptions,
   message_date : MessageDates]

MsgLists == UNION {[1..n -> Records] : n \in 0..MaxMsgs}

AnalysisTypes == {"summary", "insights", "topics", "sentiment", "mood"}
CustomPrompts == {<<"q">>}

\* Included testing that a key is present instead of its value
Included_key_present(msg) ==
  msg.message_text.tag # "absent" \/ msg.transcription.tag # "absent"

\* the filter of both comprehensions
Included(msg) == Truthy(msg.message_text) \/ Truthy(msg.transcription)

\* msg.get('message_text', msg.get('transcription', ''))
TextOf(msg) == DictGet(msg.message_text, DictGet(msg.transcription, PyStr(<< >>)))

\* a value inside an f-string
Fmt(v) == IF v.tag = "None" THEN <<"None">> ELSE v.val

\* the line analyze_messages builds for a record
analyze_line(msg) ==
  <<"[">> \o Fmt(DictGet(msg.message_date, PyStr(<<"Unknown">>))) \o <<"] ">>
    \o Fmt(TextOf(msg))

\* the line custom_analysis builds for a record
custom_line(msg) == Fmt(TextOf(msg))

\* "\n".join(lines)
RECURSIVE Join(_)
Join(lines) ==
  IF lines = << >> THEN << >>
  ELSE IF Len(lines) = 1 THEN lines[1]
  ELSE lines[1] \o <<"\n">> \o Join(Tail(lines))

analyze_text(messages) ==
  LET kept == SelectSeq(messages, Included) IN
    Join([i \in 1..Len(kept) |-> analyze_line(kept[i])])

custom_text(messages) ==
  LET kept == SelectSeq(messages, Included) IN
    Join([i \in 1..Len(kept) |-> custom_line(kept[i])])

NoMessages == <<"Net soobshchenii dlya analiza">>

prompts ==
  [summary |-> <<"Sozdai kratkoe rezyume etoi perepiski. Vydeli osnovnye temy i klyuchevye momenty.">>,
   insights |-> <<"Proanaliziruj etu perepisku i vydeli klyuchevye insaity, vazhnye idei i vyvody.">>,
   topics |-> <<"Opredeli osnovnye temy, kotorye obsuzhdayutsya v etoi perepiske. Sgruppiruj ih po kategoriyam.">>,
   sentiment |-> <<"Proanaliziruj tonalnost etoi perepiski. Opredeli obshchee nastroenie i emocionalnuyu okrasku.">>]

\* SelectPrompt with the wrong default
SelectPrompt_wrong_default(analysis_type) ==
  IF analysis_type \in DOMAIN prompts THEN prompts[analysis_type] ELSE prompts["insights"]

\* prompts.get(analysis_type, prompts["summary"])
SelectPrompt(analysis_type) ==
  IF analysis_type \in DOMAIN prompts THEN prompts[analysis_type] ELSE prompts["summary"]

CustomSystemPrompt ==
  <<"Ty pomoshchnik dlya analiza perepisok. Otvechaj na voprosy polzovatelya na osnove predostavlennyh soobshchenij.">>

\* an analysis function, up to its return or its await of chat_completion
AnalysisCall(fn, messages, arg, messages_text, system_prompt, user_message) ==
  /\ aiState = "ready"
  /\ NoCallInFlight
  /\ anCall' = [fn |-> fn, messages |-> messages, arg |-> arg]
  /\ IF messages_text = << >>
       THEN /\ anPc' = "done"
            /\ anResult' = PyStr(NoMessages)
            /\ nChat' = 0
            /\ UNCHANGED chatFrame
       ELSE /\ anPc' = "awaiting"
            /\ anResult' = PyNone
            /\ nChat' = 1
            /\ chatPc' = "request"
            /\ chatArgs' = ChatArgs(system_prompt, user_message)
            /\ chatResult' = PyNone
            /\ chatRaised' = FALSE
            /\ chatFailure' = Absent
  /\ UNCHANGED <<tConfig, tFrame, aiConfig>>

analyze_messages(messages, analysis_type) ==
  AnalysisCall("analyze_messages", messages, analysis_type,
               analyze_text(messages),
               SelectPrompt(analysis_type),
               <<"Perepiska:\n\n">> \o analyze_text(messages))

custom_analysis(messages, custom_prompt) ==
  AnalysisCall("custom_analysis", messages, custom_prompt,
               custom_text(messages),
               CustomSystemPrompt,
               <<"Perepiska:\n\n">> \o custom_text(messages)
                 \o <<"\n\nVopros: ">> \o custom_prompt)

\* return await ai_client.chat_completion(...)
AnalysisReturn ==
  /\ anPc = "awaiting"
  /\ chatPc = "done"
  /\ anPc' = "done"
  /\ anResult' = chatResult
  /\ UNCHANGED <<anCall, nChat>>
  /\ UNCHANGED <<tConfig, tFrame, aiConfig, chatFrame>>

\* the caller of an analysis function resumes with the value returned
AnalysisResume ==
  /\ anPc = "done"
  /\ AnReset
  /\ ChatReset
  /\ UNCHANGED <<tConfig, tFrame, aiConfig>>

\* ---------------------------------------------------- specifications
Init ==
  /\ tState = "none" /\ t_provider = "none" /\ openai_client = FALSE
  /\ assemblyai_key = PyNone
  /\ TIdle
  /\ aiState = "unloaded" /\ ai_provider = "none" /\ ai_model = "none"
  /\ chatPc = "idle" /\ chatArgs = Absent /\ chatResult = PyNone
  /\ chatRaised = FALSE /\ chatFailure = Absent
  /\ anPc = "idle" /\ anCall = Absent /\ anResult = PyNone /\ nChat = 0

\* the two dispatcher classes and the calls made on them
Next ==
  \/ \E p \in EnvTranscriptionProviders, ok \in EnvKeys, ak \in EnvKeys :
       TranscriptionClient_init(p, ok, ak)
  \/ Transcribe
  \/ \E resp \in WhisperResponses : WhisperLocalPost(resp)
  \/ \E resp \in OpenaiResponses : OpenaiCreate(resp)
  \/ \E resp \in UploadResponses : AssemblyaiUpload(resp)
  \/ \E resp \in SubmitResponses : AssemblyaiSubmit(resp)
  \/ PollSleep
  \/ \E resp \in StatusResponses : PollStatus(resp)
  \/ PollExhausted
  \/ TranscribeResume
  \/ \E p \in EnvAIProviders, m \in EnvOpenrouterModels : AIClient_init(p, m)
  \/ ChatCompletionCall(<<"system">>, <<"user">>)
  \/ \E o \in ChatOutcomes : ChatCompletionRequest(o)
  \/ ChatCompletionResume

Spec == Init /\ [][Next]_vars

\* module ai_client: the singleton client and the two analysis functions
NextAnalysis ==
  \/ \E p \in EnvAIProviders, m \in EnvOpenrouterModels : AIClient_init(p, m)
  \/ /\ NoCallInFlight
     /\ \E messages \in MsgLists, t \in AnalysisTypes : analyze_messages(messages, t)
  \/ /\ NoCallInFlight
     /\ \E messages \in MsgLists, q \in CustomPrompts : custom_analysis(messages, q)
  \/ \E o \in ChatOutcomes : ChatCompletionRequest(o)
  \/ AnalysisReturn
  \/ AnalysisResume

SpecAnalysis == Init /\ [][NextAnalysis]_vars


\* ------------------------------------------------------------ claims
TranscriptionProviders == {"whisper_local", "openai", "assemblyai"}

\* r is s without its leading and trailing whitespace
Trimmed(r, s) ==
  /\ r = << >> \/ (~IsSpace(r[1]) /\ ~IsSpace(r[Len(r)]))
  /\ \E i \in 0..Len(s) :
       /\ i + Len(r) <= Len(s)
       /\ SubSeq(s, i + 1, i + Len(r)) = r
       /\ \A j \in 1..Len(s) : (j <= i \/ j > i + Len(r)) => IsSpace(s[j])

\* sub occurs in s
Contains(s, sub) ==
  \E i \in 0..(Len(s) - Len(sub)) : SubSeq(s, i + 1, i + Len(sub)) = sub

\* C1: transcribe never raises, and returns a string only when the backend
\* delivered a transcript; every failed job gives None.
C1_NoneUnlessDelivered ==
  /\ ~tRaised
  /\ (tPc = "done" /\ tResult # PyNone) => obs.delivered.tag = "str"

\* C2: chat_completion never raises; when the backend request fails it returns
\* a string containing the provider name and the failure's message.
C2_FailureIsReturnedAsText ==
  /\ ~chatRaised
  /\ (chatPc = "done" /\ chatFailure.tag = "str") =>
       /\ chatResult.tag = "str"
       /\ Contains(chatResult.val, <<ai_provider>>)
       /\ Contains(chatResult.val, chatFailure.val)

C2_Witness ==
  /\ chatPc = "done"
  /\ ai_provider = "openrouter"
  /\ chatFailure = PyStr(<<"list index out of range">>)

\* C3: when upload and submit succeeded and status request k is the first one
\* answered "completed" (the earlier ones "queued"/"processing"), the call
\* returns the trimmed transcript after exactly k status requests and k sleeps,
\* 1 <= k <= 60, and nothing is requested after that answer.
C3_ReturnsOnKthPoll ==
  /\ obs.kCompleted > 0 => tPc = "done"
  /\ (/\ tPc = "done" /\ obs.uploadOk /\ obs.submitOk
      /\ obs.pollAnswer = "completed" /\ ~obs.sawNon200 /\ ~obs.sawOther
      /\ obs.delivered.tag = "str") =>
       /\ tResult.tag = "str"
       /\ Trimmed(tResult.val, obs.delivered.val)
       /\ obs.kCompleted \in 1..60
       /\ req.status = obs.kCompleted
       /\ req.sleep = obs.kCompleted

C3_Witness ==
  /\ tPc = "done" /\ obs.uploadOk /\ obs.submitOk
  /\ obs.pollAnswer = "completed" /\ ~obs.sawNon200 /\ ~obs.sawOther
  /\ obs.kCompleted = 3
  /\ obs.delivered = PyStr(<<" ", "a", " ">>)
  /\ tResult = PyStr(<<"a">>)

C5_PhasesGated ==
  /\ req.upload <= 1 /\ req.submit <= 1
  /\ (req.submit > 0 \/ tPc = "submit") => obs.uploadOk
  /\ (req.status > 0 \/ req.sleep > 0 \/ tPc \in {"poll", "status"}) =>
       obs.uploadOk /\ obs.submitOk
  /\ (tPc = "done" /\ req.upload > 0 /\ ~obs.uploadOk) =>
       tResult = PyNone /\ req.submit = 0 /\ req.status = 0 /\ req.sleep = 0
  /\ (tPc = "done" /\ req.submit > 0 /\ ~obs.submitOk) =>
       tResult = PyNone /\ req.status = 0 /\ req.sleep = 0

C5_Witness ==
  /\ tPc = "done" /\ req.upload = 1 /\ ~obs.uploadOk
  /\ req.submit = 0 /\ req.status = 0 /\ req.sleep = 0
  /\ tResult = PyNone

C8_Original ==
  /\ aiState = "ready" => ai_provider \in AIProviders
  /\ tState = "ready" => t_provider \in TranscriptionProviders

\* C8 amended: AIClient is constructed only with a recognized provider;
\* TranscriptionClient is constructed with any provider value, and a value
\* outside its set is served by the whisper_local backend; the provider of a
\* constructed instance never changes.
C8_ProviderFixed ==
  [][/\ aiState' = "ready" => ai_provider' \in AIProviders
     /\ aiState = "ready" => (aiState' = "ready" /\ ai_provider' = ai_provider)
     /\ tState = "ready" => (tState' = "ready" /\ t_provider' = t_provider)
     /\ (tState' = "ready" /\ t_provider' \notin TranscriptionProviders) =>
          tPc' \in {"idle", "whisper_post", "done"}]_vars

C8_Witness ==
  /\ aiState = "ready" /\ ai_provider = "agentrouter"
  /\ tState = "ready" /\ t_provider = "vosk"
  /\ tPc = "done" /\ tResult = PyStr(<<"a">>)


\* a field value that is present and non-empty
Usable(v) == v.tag = "str" /\ Len(v.val) > 0

HasUsableText(msg) == Usable(msg.message_text) \/ Usable(msg.transcription)

\* the usable text of a record: message_text when usable, else transcription
UsableText(msg) ==
  IF Usable(msg.message_text) THEN msg.message_text.val ELSE msg.transcription.val

RECURSIVE UsableTexts(_)
UsableTexts(messages) ==
  IF messages = << >> THEN << >>
  ELSE (IF HasUsableText(Head(messages)) THEN UsableText(Head(messages)) ELSE << >>)
         \o UsableTexts(Tail(messages))

IsRecordText(piece) == piece \in {"a", "x"}

\* C7: when no record has a usable message_text or transcription (the empty
\* list included), analyze_messages and custom_analysis return the "no
\* messages" sentinel and never call chat_completion.
C7_SentinelWithoutRequest ==
  (anPc # "idle" /\ \A i \in 1..Len(anCall.messages) : ~HasUsableText(anCall.messages[i])) =>
    /\ anPc = "done"
    /\ anResult = PyStr(<<"Net soobshchenii dlya analiza">>)
    /\ nChat = 0
    /\ chatPc = "idle"

C7_Witness ==
  /\ anPc = "done"
  /\ anCall.fn = "analyze_messages"
  /\ Len(anCall.messages) = 2
  /\ anCall.messages[1].message_text = PyStr(<< >>)
  /\ anCall.messages[2].transcription = PyNone
  /\ \A i \in 1..2 : ~HasUsableText(anCall.messages[i])
  /\ nChat = 0

\* the prompt the fixed table assigns to an analysis type
C9_TablePrompt(t) ==
  CASE t = "summary" ->
         <<"Sozdai kratkoe rezyume etoi perepiski. Vydeli osnovnye temy i klyuchevye momenty.">>
    [] t = "insights" ->
         <<"Proanaliziruj etu perepisku i vydeli klyuchevye insaity, vazhnye idei i vyvody.">>
    [] t = "topics" ->
         <<"Opredeli osnovnye temy, kotorye obsuzhdayutsya v etoi perepiske. Sgruppiruj ih po kategoriyam.">>
    [] t = "sentiment" ->
         <<"Proanaliziruj tonalnost etoi perepiski. Opredeli obshchee nastroenie i emocionalnuyu okrasku.">>

C9_Kinds == {"summary", "insights", "topics", "sentiment"}

\* C9: analyze_messages with a non-empty transcript passes chat_completion the
\* table's prompt of a known analysis_type and the "summary" prompt of any
\* other; the four prompts are pairwise distinct.
C9_PromptSelected ==
  /\ (anPc # "idle" /\ anCall.fn = "analyze_messages" /\ nChat > 0) =>
       chatArgs.system = (IF anCall.arg \in C9_Kinds THEN C9_TablePrompt(anCall.arg)
                          ELSE C9_TablePrompt("summary"))
  /\ DOMAIN prompts = C9_Kinds
  /\ \A a, b \in DOMAIN prompts : a # b => prompts[a] # prompts[b]

C9_Witness ==
  /\ anPc = "done"
  /\ anCall.fn = "analyze_messages"
  /\ anCall.arg = "mood"
  /\ nChat = 1
  /\ chatArgs.system = C9_TablePrompt("summary")
  /\ anResult = PyStr(<<"reply">>)

\* C10: when some record has usable text, each analysis function makes exactly
\* one chat_completion call whose user message holds the usable text of every
\* such record (message_text when usable, else transcription) in input order.
C10_UsableTextIsSent ==
  (anPc = "done" /\ \E i \in 1..Len(anCall.messages) : HasUsableText(anCall.messages[i])) =>
    /\ nChat = 1
    /\ SelectSeq(chatArgs.user, IsRecordText) = UsableTexts(anCall.messages)

====
